---- MODULE Spec2Model ----
(***************************************************************************)
(* Model of vapix_python.OpticsControl (src/src/vapix_python/              *)
(* OpticsControl.py): a client whose every public method builds one JSON   *)
(* request envelope and hands it to the injected transport                 *)
(* (self.api._send_request_vanilla).                                       *)
(*                                                                         *)
(* Encoding of Python values:                                              *)
(*   - an optics id is Union[str, int]: PyInt(n) or PyStr(s);              *)
(*   - a float argument is an integer number of tenths (5 is 0.5); the     *)
(*     code never computes with it, it only forwards it;                   *)
(*   - a bool is a TLA+ boolean, a str a TLA+ string;                      *)
(*   - a keyword argument with a default is a set: {} when the caller      *)
(*     omits it, {v} when the caller passes v;                             *)
(*   - the result of a call is Return(v) or Raise(e).                      *)
(***************************************************************************)
EXTENDS Integers, Sequences, FiniteSets, TLC

VARIABLES
    api,            \* self.api: the injected transport (set in __init__)
    RELATIVE_STEP,  \* the class attribute OpticsControl.RELATIVE_STEP
    calls,          \* number of public operations called so far
    sent,           \* number of requests handed to the transport so far
    call,           \* the last operation called: [op, args]
    transport,      \* what the transport did with the last request
    requests,       \* the requests the last call handed to the transport
    outcome         \* what the caller of the last operation observed

vars == <<api, RELATIVE_STEP, calls, sent, call, transport, requests, outcome>>

\* Number of calls a behaviour makes (caps the counters).
MaxCalls == 2

-----------------------------------------------------------------------------
(* Python values *)

PyInt(n) == [int |-> n]
PyStr(s) == [str |-> s]
PyNone == [type |-> "NoneType"]
PyBool(b) == [type |-> "bool", val |-> b]
PyDict(d) == [type |-> "dict", val |-> d]

Return(v) == [raised |-> FALSE, value |-> v]
Raise(e) == [raised |-> TRUE, exc |-> e]

Digit(d) ==
    CASE d = 0 -> "0" [] d = 1 -> "1" [] d = 2 -> "2" [] d = 3 -> "3"
      [] d = 4 -> "4" [] d = 5 -> "5" [] d = 6 -> "6" [] d = 7 -> "7"
      [] d = 8 -> "8" [] d = 9 -> "9"

RECURSIVE Decimal(_)
Decimal(n) == IF n < 10 THEN Digit(n) ELSE Decimal(n \div 10) \o Digit(n % 10)

\* Variant: only the last digit of an int survives the conversion.
str_last_digit(x) ==
    IF "int" \in DOMAIN x
    THEN IF x.int < 0 THEN "-" \o Digit((0 - x.int) % 10) ELSE Digit(x.int % 10)
    ELSE x.str

\* Python's str() on an optics id: decimal digits for an int, the string
\* itself for a str.
str(x) ==
    IF "int" \in DOMAIN x
    THEN IF x.int < 0 THEN "-" \o Decimal(0 - x.int) ELSE Decimal(x.int)
    ELSE x.str

\* The classes an exception class derives from (itself included).
Bases(e) ==
    CASE e = "OpticsControlError" ->
            {"OpticsControlError", "RuntimeError", "Exception", "BaseException"}
      [] e = "ConnectionError" ->
            {"ConnectionError", "OSError", "Exception", "BaseException"}
      [] e = "KeyboardInterrupt" ->
            {"KeyboardInterrupt", "BaseException"}

isinstance(e, cls) == cls \in Bases(e)

\* The value a parameter with a default takes at a call.
Bind(arg, default) == IF arg = {} THEN default ELSE CHOOSE v \in arg : TRUE

-----------------------------------------------------------------------------
(* The environment: the injected transport and the callers' arguments *)

Transport == "VapixAPI"

Exceptions == {"OpticsControlError", "ConnectionError", "KeyboardInterrupt"}
Bodies == {"{data}"}

\* The transport either returns the parsed body or raises.
Replies == {Return(PyDict(b)) : b \in Bodies} \cup {Raise(e) : e \in Exceptions}

OpticsIds == {PyInt(0), PyInt(12), PyStr("lens")}
Positions == {-5, 0, 5, 15}
Magnifications == {0, 10, 250}
Coords == {0, 5}
\* Focus windows <<x, y, width, height>>: every combination of Coords, and
\* the window (0.1, 0.2, 0.5, 0.6) whose four values all differ.
FocusWindows == (Coords \X Coords \X Coords \X Coords) \cup {<<1, 2, 5, 6>>}
IrCutStates == {"on", "off", "auto", "dusk"}
OptBool == {{}, {TRUE}, {FALSE}}

\* Step strings callers pass: the exposed constants, and strings that are not.
Steps == {RELATIVE_STEP[k] : k \in DOMAIN RELATIVE_STEP} \cup {"hugeStep", ""}

-----------------------------------------------------------------------------
(* The transport call.  The result of every operator below is                *)
(* [requests |-> the requests handed to the transport, in order,            *)
(*  outcome  |-> Return(..) or Raise(..) as seen by the operator's caller]. *)

\* Variant: requests are numbered, so the envelope depends on earlier calls.
send_request_vanilla_numbered(endpoint, method, json_data, reply) ==
    [requests |-> << [api |-> api, endpoint |-> endpoint, method |-> method,
                      json_data |-> json_data @@ ("id" :> sent)] >>,
     outcome |-> reply]

\* self.api._send_request_vanilla(endpoint, method=..., json_data=...):
\* the request goes to the transport held in self.api, whose reply (a parsed
\* body or a raised exception) is the result of the call expression.
send_request_vanilla(endpoint, method, json_data, reply) ==
    [requests |-> << [api |-> api, endpoint |-> endpoint, method |-> method,
                      json_data |-> json_data] >>,
     outcome |-> reply]

\* A method body that is the bare call statement: an exception propagates,
\* a returned body is dropped and the method returns None.
Statement(r) ==
    IF r.outcome.raised THEN r ELSE [r EXCEPT !.outcome = Return(PyNone)]

\* A method body "return <call>": the caller gets the call's result as is.
ReturnOf(r) == r

-----------------------------------------------------------------------------
(* The operations *)

\* Variant: the transport's exception is replaced by OpticsControlError.
get_optics_wrapping(reply) ==
    LET r == send_request_vanilla("opticscontrol.cgi", "POST",
                 [apiVersion |-> "1.2", method |-> "getOptics"], reply)
    IN  IF r.outcome.raised
        THEN [r EXCEPT !.outcome = Raise("OpticsControlError")]
        ELSE r

\* return self.api._send_request_vanilla(..., {"apiVersion", "method"})
get_optics(reply) ==
    ReturnOf(send_request_vanilla("opticscontrol.cgi", "POST",
                 [apiVersion |-> "1.2", method |-> "getOptics"], reply))

\* Variant: no except clause around the probe.
is_available_catching_nothing(reply) ==
    LET r == get_optics(reply)
    IN  IF r.outcome.raised THEN r
        ELSE [r EXCEPT !.outcome = Return(PyBool(TRUE))]

\* try: self.get_optics(); return True / except Exception: return False
is_available(reply) ==
    LET r == get_optics(reply)
    IN  IF r.outcome.raised
        THEN IF isinstance(r.outcome.exc, "Exception")
             THEN [r EXCEPT !.outcome = Return(PyBool(FALSE))]
             ELSE r
        ELSE [r EXCEPT !.outcome = Return(PyBool(TRUE))]

get_capabilities(reply) ==
    ReturnOf(send_request_vanilla("opticscontrol.cgi", "POST",
                 [apiVersion |-> "1.2", method |-> "getCapabilities"], reply))

\* Variant: the request is sent a second time when the transport raises.
set_focus_retrying(optics_id, position, reply) ==
    LET r == send_request_vanilla("opticscontrol.cgi", "POST",
                 [apiVersion |-> "1.2", method |-> "setFocus",
                  params |-> [optics |-> << [opticsId |-> str(optics_id),
                                             position |-> position] >>]],
                 reply)
    IN  Statement(IF r.outcome.raised
                  THEN [r EXCEPT !.requests = r.requests \o r.requests]
                  ELSE r)

set_focus(optics_id, position, reply) ==
    Statement(send_request_vanilla("opticscontrol.cgi", "POST",
        [apiVersion |-> "1.2", method |-> "setFocus",
         params |-> [optics |-> << [opticsId |-> str(optics_id),
                                    position |-> position] >>]],
        reply))

\* Variant: the step is checked against the four tokens before sending.
set_relative_focus_validating(optics_id, step, reply) ==
    IF step \in {"+bigStep", "+smallStep", "-bigStep", "-smallStep"}
    THEN Statement(send_request_vanilla("opticscontrol.cgi", "POST",
            [apiVersion |-> "1.2", method |-> "setRelativeFocus",
             params |-> [optics |-> << [opticsId |-> str(optics_id),
                                        type |-> step] >>]],
            reply))
    ELSE [requests |-> << >>, outcome |-> Raise("ValueError")]

set_relative_focus(optics_id, step, reply) ==
    Statement(send_request_vanilla("opticscontrol.cgi", "POST",
        [apiVersion |-> "1.2", method |-> "setRelativeFocus",
         params |-> [optics |-> << [opticsId |-> str(optics_id),
                                    type |-> step] >>]],
        reply))

set_magnification(optics_id, magnification, reply) ==
    Statement(send_request_vanilla("opticscontrol.cgi", "POST",
        [apiVersion |-> "1.2", method |-> "setMagnification",
         params |-> [optics |-> << [opticsId |-> str(optics_id),
                                    magnification |-> magnification] >>]],
        reply))

\* Variant: the method name of set_relative_focus is sent.
set_relative_magnification_as_focus(optics_id, step, reply) ==
    set_relative_focus(optics_id, step, reply)

set_relative_magnification(optics_id, step, reply) ==
    Statement(send_request_vanilla("opticscontrol.cgi", "POST",
        [apiVersion |-> "1.2", method |-> "setRelativeMagnification",
         params |-> [optics |-> << [opticsId |-> str(optics_id),
                                    type |-> step] >>]],
        reply))

\* def calibrate(self, optics_id, zoom: bool = True, focus: bool = True)
calibrate_defaults == [zoom |-> TRUE, focus |-> TRUE]

calibrate(optics_id, zoom, focus, reply) ==
    Statement(send_request_vanilla("opticscontrol.cgi", "POST",
        [apiVersion |-> "1.2", method |-> "calibrate",
         params |-> [optics |-> << [opticsId |-> str(optics_id),
                                    zoom |-> zoom, focus |-> focus] >>]],
        reply))

\* Variant: reset takes the defaults of calibrate.
reset_defaults_as_calibrate == calibrate_defaults

\* def reset(self, optics_id, zoom: bool = False, focus: bool = True)
reset_defaults == [zoom |-> FALSE, focus |-> TRUE]

reset(optics_id, zoom, focus, reply) ==
    Statement(send_request_vanilla("opticscontrol.cgi", "POST",
        [apiVersion |-> "1.2", method |-> "reset",
         params |-> [optics |-> << [opticsId |-> str(optics_id),
                                    zoom |-> zoom, focus |-> focus] >>]],
        reply))

\* Variant: width and height are exchanged.
set_focus_window_swapped(optics_id, x, y, width, height, reply) ==
    Statement(send_request_vanilla("opticscontrol.cgi", "POST",
        [apiVersion |-> "1.2", method |-> "setFocusWindow",
         params |-> [optics |-> << [opticsId |-> str(optics_id),
                                    focusWindowUpperLeftX |-> x,
                                    focusWindowUpperLeftY |-> y,
                                    focusWindowWidth |-> height,
                                    focusWindowHeight |-> width] >>]],
        reply))

set_focus_window(optics_id, x, y, width, height, reply) ==
    Statement(send_request_vanilla("opticscontrol.cgi", "POST",
        [apiVersion |-> "1.2", method |-> "setFocusWindow",
         params |-> [optics |-> << [opticsId |-> str(optics_id),
                                    focusWindowUpperLeftX |-> x,
                                    focusWindowUpperLeftY |-> y,
                                    focusWindowWidth |-> width,
                                    focusWindowHeight |-> height] >>]],
        reply))

perform_autofocus(optics_id, reply) ==
    Statement(send_request_vanilla("opticscontrol.cgi", "POST",
        [apiVersion |-> "1.2", method |-> "performAutofocus",
         params |-> [optics |-> << [opticsId |-> str(optics_id)] >>]],
        reply))

set_temperature_compensation(optics_id, enabled, reply) ==
    Statement(send_request_vanilla("opticscontrol.cgi", "POST",
        [apiVersion |-> "1.2", method |-> "setTemperatureCompensation",
         params |-> [optics |-> << [opticsId |-> str(optics_id),
                                    enable |-> enabled] >>]],
        reply))

set_ir_cut_filter_state(optics_id, state, reply) ==
    Statement(send_request_vanilla("opticscontrol.cgi", "POST",
        [apiVersion |-> "1.2", method |-> "setIrCutFilterState",
         params |-> [optics |-> << [opticsId |-> str(optics_id),
                                    state |-> state] >>]],
        reply))

set_ir_compensation(optics_id, enabled, reply) ==
    Statement(send_request_vanilla("opticscontrol.cgi", "POST",
        [apiVersion |-> "1.2", method |-> "setIrCompensation",
         params |-> [optics |-> << [opticsId |-> str(optics_id),
                                    enable |-> enabled] >>]],
        reply))

-----------------------------------------------------------------------------
(* The state machine: one action per public operation *)

\* Variant: the two OUT tokens are exchanged.
RELATIVE_STEP_shifted ==
    [BIG_IN |-> "+bigStep", SMALL_IN |-> "+smallStep",
     BIG_OUT |-> "-smallStep", SMALL_OUT |-> "-bigStep"]

\* The class attribute as the class body sets it.
RELATIVE_STEP_literal ==
    [BIG_IN |-> "+bigStep", SMALL_IN |-> "+smallStep",
     BIG_OUT |-> "-bigStep", SMALL_OUT |-> "-smallStep"]

\* No operation has been called yet.
NoCall == [op |-> "__init__", args |-> [api |-> Transport]]

\* OpticsControl(api): __init__ stores the transport and does nothing else.
Init ==
    /\ api = Transport
    /\ RELATIVE_STEP = RELATIVE_STEP_literal
    /\ calls = 0
    /\ sent = 0
    /\ call = NoCall
    /\ transport = Return(PyNone)
    /\ requests = << >>
    /\ outcome = Return(PyNone)

\* A caller invokes operation op with args; the transport answers with reply;
\* r is what the method body did.  No method assigns self.api or touches
\* RELATIVE_STEP.
Invoke(op, args, reply, r) ==
    /\ calls < MaxCalls
    /\ calls' = calls + 1
    /\ call' = [op |-> op, args |-> args]
    /\ transport' = reply
    /\ requests' = r.requests
    /\ sent' = sent + Len(r.requests)
    /\ outcome' = r.outcome
    /\ UNCHANGED <<api, RELATIVE_STEP>>

IsAvailable ==
    \E reply \in Replies :
        Invoke("is_available", << >>, reply, is_available(reply))

GetOptics ==
    \E reply \in Replies :
        Invoke("get_optics", << >>, reply, get_optics(reply))

GetCapabilities ==
    \E reply \in Replies :
        Invoke("get_capabilities", << >>, reply, get_capabilities(reply))

SetFocus ==
    \E optics_id \in OpticsIds, position \in Positions, reply \in Replies :
        Invoke("set_focus", [optics_id |-> optics_id, position |-> position],
               reply, set_focus(optics_id, position, reply))

SetRelativeFocus ==
    \E optics_id \in OpticsIds, step \in Steps, reply \in Replies :
        Invoke("set_relative_focus", [optics_id |-> optics_id, step |-> step],
               reply, set_relative_focus(optics_id, step, reply))

SetMagnification ==
    \E optics_id \in OpticsIds, magnification \in Magnifications,
       reply \in Replies :
        Invoke("set_magnification",
               [optics_id |-> optics_id, magnification |-> magnification],
               reply, set_magnification(optics_id, magnification, reply))

SetRelativeMagnification ==
    \E optics_id \in OpticsIds, step \in Steps, reply \in Replies :
        Invoke("set_relative_magnification",
               [optics_id |-> optics_id, step |-> step],
               reply, set_relative_magnification(optics_id, step, reply))

Calibrate ==
    \E optics_id \in OpticsIds, zoom \in OptBool, focus \in OptBool,
       reply \in Replies :
        Invoke("calibrate",
               [optics_id |-> optics_id, zoom |-> zoom, focus |-> focus],
               reply,
               calibrate(optics_id, Bind(zoom, calibrate_defaults.zoom),
                         Bind(focus, calibrate_defaults.focus), reply))

Reset ==
    \E optics_id \in OpticsIds, zoom \in OptBool, focus \in OptBool,
       reply \in Replies :
        Invoke("reset",
               [optics_id |-> optics_id, zoom |-> zoom, focus |-> focus],
               reply,
               reset(optics_id, Bind(zoom, reset_defaults.zoom),
                     Bind(focus, reset_defaults.focus), reply))

SetFocusWindow ==
    \E optics_id \in OpticsIds, w \in FocusWindows, reply \in Replies :
        Invoke("set_focus_window",
               [optics_id |-> optics_id, x |-> w[1], y |-> w[2],
                width |-> w[3], height |-> w[4]],
               reply,
               set_focus_window(optics_id, w[1], w[2], w[3], w[4], reply))

PerformAutofocus ==
    \E optics_id \in OpticsIds, reply \in Replies :
        Invoke("perform_autofocus", [optics_id |-> optics_id], reply,
               perform_autofocus(optics_id, reply))

SetTemperatureCompensation ==
    \E optics_id \in OpticsIds, enabled \in BOOLEAN, reply \in Replies :
        Invoke("set_temperature_compensation",
               [optics_id |-> optics_id, enabled |-> enabled], reply,
               set_temperature_compensation(optics_id, enabled, reply))

SetIrCutFilterState ==
    \E optics_id \in OpticsIds, state \in IrCutStates, reply \in Replies :
        Invoke("set_ir_cut_filter_state",
               [optics_id |-> optics_id, state |-> state], reply,
               set_ir_cut_filter_state(optics_id, state, reply))

SetIrCompensation ==
    \E optics_id \in OpticsIds, enabled \in BOOLEAN, reply \in Replies :
        Invoke("set_ir_compensation",
               [optics_id |-> optics_id, enabled |-> enabled], reply,
               set_ir_compensation(optics_id, enabled, reply))

Next ==
    \/ IsAvailable
    \/ GetOptics
    \/ GetCapabilities
    \/ SetFocus
    \/ SetRelativeFocus
    \/ SetMagnification
    \/ SetRelativeMagnification
    \/ Calibrate
    \/ Reset
    \/ SetFocusWindow
    \/ PerformAutofocus
    \/ SetTemperatureCompensation
    \/ SetIrCutFilterState
    \/ SetIrCompensation

Spec == Init /\ [][Next]_vars

-----------------------------------------------------------------------------
(* Properties *)

Operations ==
    {"is_available", "get_optics", "get_capabilities", "set_focus",
     "set_relative_focus", "set_magnification", "set_relative_magnification",
     "calibrate", "reset", "set_focus_window", "perform_autofocus",
     "set_temperature_compensation", "set_ir_cut_filter_state",
     "set_ir_compensation"}

QueryOperations == {"get_optics", "get_capabilities"}
MutatingOperations == Operations \ (QueryOperations \cup {"is_available"})

StepTokens == {"+bigStep", "+smallStep", "-bigStep", "-smallStep"}

\* The operation -> method name table of the specification.
MethodNameOf(op) ==
    CASE op = "is_available" -> "getOptics"
      [] op = "get_optics" -> "getOptics"
      [] op = "get_capabilities" -> "getCapabilities"
      [] op = "set_focus" -> "setFocus"
      [] op = "set_relative_focus" -> "setRelativeFocus"
      [] op = "set_magnification" -> "setMagnification"
      [] op = "set_relative_magnification" -> "setRelativeMagnification"
      [] op = "calibrate" -> "calibrate"
      [] op = "reset" -> "reset"
      [] op = "set_focus_window" -> "setFocusWindow"
      [] op = "perform_autofocus" -> "performAutofocus"
      [] op = "set_temperature_compensation" -> "setTemperatureCompensation"
      [] op = "set_ir_cut_filter_state" -> "setIrCutFilterState"
      [] op = "set_ir_compensation" -> "setIrCompensation"

\* The fields an operation adds to opticsId in its optics record.
OwnFields(op) ==
    CASE op = "set_focus" -> {"position"}
      [] op = "set_relative_focus" -> {"type"}
      [] op = "set_magnification" -> {"magnification"}
      [] op = "set_relative_magnification" -> {"type"}
      [] op = "calibrate" -> {"zoom", "focus"}
      [] op = "reset" -> {"zoom", "focus"}
      [] op = "set_focus_window" ->
            {"focusWindowUpperLeftX", "focusWindowUpperLeftY",
             "focusWindowWidth", "focusWindowHeight"}
      [] op = "perform_autofocus" -> {}
      [] op = "set_temperature_compensation" -> {"enable"}
      [] op = "set_ir_cut_filter_state" -> {"state"}
      [] op = "set_ir_compensation" -> {"enable"}

\* The string form of each optics id the callers use, written out.
IdString(id) ==
    CASE id = PyInt(0) -> "0"
      [] id = PyInt(12) -> "12"
      [] id = PyStr("lens") -> "lens"

\* The envelope of the last call's request and its optics record.
Body == requests[1].json_data
Record == requests[1].json_data.params.optics[1]

\* A flag as sent agrees with the argument as given, or with the default.
FlagSent(sentValue, arg, default) ==
    /\ arg = {} => sentValue = default
    /\ \A b \in arg : sentValue = b

\* C1: after any sequence of calls, succeeded or failed, the number of
\* requests handed to the transport equals the number of operations called:
\* every call hands the injected transport exactly one request, addressed to
\* 'opticscontrol.cgi' with verb POST, and none is sent again.
C1_OneRequestPerCall ==
    /\ sent = calls
    /\ calls > 0 =>
        /\ call.op \in Operations
        /\ Len(requests) = 1
        /\ requests[1].api = api
        /\ requests[1].endpoint = "opticscontrol.cgi"
        /\ requests[1].method = "POST"

C1_Witness ==
    /\ calls >= 2
    /\ call.op = "set_focus"
    /\ transport.raised
    /\ sent = calls

\* C2: is_available returns True exactly when its get_optics probe returns
\* without raising, and when the transport raises an error (an instance of
\* Exception, whatever its class) it returns False and nothing propagates.
C2_AvailabilityIffProbeSucceeds ==
    (calls > 0 /\ call.op = "is_available") =>
        /\ (outcome = Return(PyBool(TRUE))) <=> ~transport.raised
        /\ (transport.raised /\ isinstance(transport.exc, "Exception")) =>
                outcome = Return(PyBool(FALSE))

C2_Witness ==
    /\ call.op = "is_available"
    /\ transport = Raise("ConnectionError")
    /\ outcome = Return(PyBool(FALSE))

\* C3: for every operation other than is_available, an error the transport
\* raises reaches the caller as that same error: not caught, not wrapped,
\* not replaced, not turned into a return value.
C3_ErrorsPropagateUnchanged ==
    (calls > 0 /\ call.op # "is_available" /\ transport.raised) =>
        outcome = transport

C3_Witness ==
    /\ call.op = "get_optics"
    /\ transport = Raise("ConnectionError")
    /\ outcome = Raise("ConnectionError")

\* C4: every request envelope carries apiVersion "1.2" and the method name
\* that the table of fourteen operation -> method name pairs fixes for the
\* operation called.
C4_EnvelopeNamesMethod ==
    /\ Cardinality(Operations) = 14
    /\ calls > 0 =>
        /\ requests # << >>
        /\ \A i \in 1..Len(requests) :
            /\ requests[i].json_data.apiVersion = "1.2"
            /\ requests[i].json_data.method = MethodNameOf(call.op)

C4_Witness ==
    /\ call.op = "set_relative_magnification"
    /\ Len(requests) = 1
    /\ Body.apiVersion = "1.2"
    /\ Body.method = "setRelativeMagnification"

\* C5: for every optics id and every mutating operation, params.optics is a
\* list of exactly one record, whose opticsId is the string form of the id
\* and whose other fields are the operation's own (for set_focus: position
\* is the position given); get_optics and get_capabilities send an envelope
\* with no params member.
C5_SingleRecordWithStringId ==
    /\ (calls > 0 /\ call.op \in MutatingOperations) =>
        /\ Len(requests) = 1
        /\ DOMAIN Body = {"apiVersion", "method", "params"}
        /\ DOMAIN Body.params = {"optics"}
        /\ Len(Body.params.optics) = 1
        /\ DOMAIN Record = {"opticsId"} \cup OwnFields(call.op)
        /\ Record.opticsId = IdString(call.args.optics_id)
        /\ call.op = "set_focus" =>
            /\ Body.method = "setFocus"
            /\ Record.position = call.args.position
        /\ call.op = "set_magnification" =>
            Record.magnification = call.args.magnification
        /\ call.op \in {"set_temperature_compensation", "set_ir_compensation"} =>
            Record.enable = call.args.enabled
    /\ (calls > 0 /\ call.op \in QueryOperations) =>
        /\ Len(requests) = 1
        /\ DOMAIN Body = {"apiVersion", "method"}

C5_Witness ==
    /\ call.op = "set_focus"
    /\ call.args.optics_id = PyInt(12)
    /\ call.args.position = 5
    /\ Body.params.optics = << [opticsId |-> "12", position |-> 5] >>

\* C6: calibrate with no flag overridden sends zoom true and focus true,
\* reset with no flag overridden sends zoom false and focus true, and a flag
\* given explicitly is sent as given while the other keeps its default.
C6_DefaultFlags ==
    /\ (calls > 0 /\ call.op = "calibrate") =>
        /\ Len(requests) = 1
        /\ FlagSent(Record.zoom, call.args.zoom, TRUE)
        /\ FlagSent(Record.focus, call.args.focus, TRUE)
    /\ (calls > 0 /\ call.op = "reset") =>
        /\ Len(requests) = 1
        /\ FlagSent(Record.zoom, call.args.zoom, FALSE)
        /\ FlagSent(Record.focus, call.args.focus, TRUE)

C6_Witness ==
    /\ call.op = "reset"
    /\ call.args.zoom = {}
    /\ call.args.focus = {}
    /\ Record.zoom = FALSE
    /\ Record.focus = TRUE

\* C7: for all arguments, set_focus_window issues a request with method
\* "setFocusWindow" whose single optics record has focusWindowUpperLeftX = x,
\* focusWindowUpperLeftY = y, focusWindowWidth = width and
\* focusWindowHeight = height, no two of them exchanged.
C7_FocusWindowFields ==
    (calls > 0 /\ call.op = "set_focus_window") =>
        /\ Len(requests) = 1
        /\ Body.method = "setFocusWindow"
        /\ Len(Body.params.optics) = 1
        /\ Record.focusWindowUpperLeftX = call.args.x
        /\ Record.focusWindowUpperLeftY = call.args.y
        /\ Record.focusWindowWidth = call.args.width
        /\ Record.focusWindowHeight = call.args.height

C7_Witness ==
    /\ call.op = "set_focus_window"
    /\ <<call.args.x, call.args.y, call.args.width, call.args.height>>
            = <<1, 2, 5, 6>>
    /\ Record.focusWindowUpperLeftX = 1
    /\ Record.focusWindowUpperLeftY = 2
    /\ Record.focusWindowWidth = 5
    /\ Record.focusWindowHeight = 6

\* C8: RELATIVE_STEP has exactly the keys BIG_IN, SMALL_IN, BIG_OUT and
\* SMALL_OUT, mapped to "+bigStep", "+smallStep", "-bigStep" and
\* "-smallStep", in every state: no operation of the client changes it.
C8_RelativeStepTable ==
    /\ DOMAIN RELATIVE_STEP = {"BIG_IN", "SMALL_IN", "BIG_OUT", "SMALL_OUT"}
    /\ RELATIVE_STEP["BIG_IN"] = "+bigStep"
    /\ RELATIVE_STEP["SMALL_IN"] = "+smallStep"
    /\ RELATIVE_STEP["BIG_OUT"] = "-bigStep"
    /\ RELATIVE_STEP["SMALL_OUT"] = "-smallStep"

C8_Witness ==
    /\ calls >= 2
    /\ call.op = "set_relative_magnification"
    /\ call.args.step = RELATIVE_STEP["BIG_OUT"]
    /\ Record.type = "-bigStep"

\* C9: nothing is validated locally: set_relative_focus and
\* set_relative_magnification forward any step string as the record's type,
\* set_ir_cut_filter_state any state string and set_focus any position, also
\* outside what the camera accepts; the request is issued and the only
\* error the caller can see is the one the transport raised.
C9_NoLocalValidation ==
    (calls > 0 /\ call.op \in {"set_relative_focus", "set_relative_magnification",
                               "set_ir_cut_filter_state", "set_focus"}) =>
        /\ Len(requests) = 1
        /\ call.op \in {"set_relative_focus", "set_relative_magnification"} =>
            Record.type = call.args.step
        /\ call.op = "set_ir_cut_filter_state" =>
            Record.state = call.args.state
        /\ call.op = "set_focus" => Record.position = call.args.position
        /\ outcome.raised => (transport.raised /\ outcome = transport)
        /\ ~transport.raised => outcome = Return(PyNone)

C9_Witness ==
    /\ call.op = "set_relative_focus"
    /\ call.args.step \notin StepTokens
    /\ Len(requests) = 1
    /\ Record.type = call.args.step
    /\ outcome = Return(PyNone)

====
